---- MODULE Spec2Model ----
(***************************************************************************)
(* VaultUSB: the master-key lifecycle (app/crypto.py CryptoManager) and    *)
(* the encrypted storage engine (app/storage.py StorageManager).           *)
(*                                                                         *)
(* Cryptography is modelled symbolically: an AEAD ciphertext is the record *)
(* of the key, the nonce and the plaintext it was made from, and it opens  *)
(* only under that key and nonce.  A derived key is the record of what the *)
(* derivation actually reads.                                              *)
(***************************************************************************)
EXTENDS Integers, FiniteSets, Sequences, TLC

\* ---------------------------------------------------------------- bounds
\* Number of file ids / on-disk names the model lets store_file allocate
\* when calls run one at a time (one more when two run at once).
MaxFiles == 1
\* Number of distinct values of the part of the Argon2 output that is random
\* (the first character of the hasher's own salt; 64 in the program).
NumHashSalts == 2

\* Number of sessions the model lets create_session open.
MaxSessions == 2
\* The latest tick of the clock.
MaxClock == 4
\* Size in bytes of the largest file handed to secure_delete.
MaxSize == 2
\* config.idle_timeout (600 seconds in the program), in ticks of the clock.
IdleTimeout == 1

Passwords == {"pw1", "pw2"}
MasterKeys == {"mk1", "mk2"}
Salts == {"salt1", "salt2"}
Nonces == {"nonce1", "nonce2"}
FileNonces == {"nonce1"}
HashSalts == 1..NumHashSalts
Payloads == {"hello", "other"}
Owners == {1, 2}
Workers == {"w1", "w2"}
FileIds == 1..(MaxFiles + 1)
SessionIds == 1..MaxSessions
TotpSecrets == {"SECRETA", "SECRETB"}

None == "None"

\* ------------------------------------------------------------- variables
VARIABLES
    master_key_file,  \* the persisted envelope (config.master_key_file) or NoFile
    master_key,       \* CryptoManager._master_key
    unlocked_flag,    \* CryptoManager._is_unlocked
    ul,               \* the load_master_key call in flight: pc, password, result
    lk,               \* the lock call in flight: its position
    vault_dir,        \* on-disk name -> content of the file in config.vault_dir
    files,            \* the File table: file id -> record
    next_id,          \* next fresh (file id, encrypted name) pair
    proc,             \* per worker: the store/retrieve/delete call in flight
    sealed_pw,        \* history: password the persisted envelope was sealed with
    stored,           \* history: per file id, the bytes store_file was given
                      \* and the master key then in use (dropped when the
                      \* record is marked deleted; the bytes are kept for a
                      \* retrieve of the id then in flight), and whether a
                      \* delete_file of the id has returned True
    vault_unlocked,   \* main.py: the API layer's global vault_unlocked
    resp,             \* the response of the last API request served
    tampered,         \* history: the envelope field changed since it was sealed
    rot,              \* history: the last reseal of the key held in memory
    sd,               \* a secure_delete call followed statement by statement,
                      \* with the file it works on
    user,             \* the User object handed to the TOTP calls
    totp,             \* the TOTP call last made and its result
    sessions,         \* the Session table: session id -> record
    clock,            \* datetime.utcnow(), in ticks
    vs,               \* the verify_session call in flight
    revoked,          \* history: session ids invalidated or expired so far
    rd                \* the read-only storage call last made and its result

vars == <<master_key_file, master_key, unlocked_flag, ul, lk, vault_dir, files,
          next_id, proc, sealed_pw, stored, vault_unlocked, resp, tampered, rot,
          sd, user, totp, sessions, clock, vs, revoked, rd>>

keyVars == <<master_key_file, master_key, unlocked_flag, ul, lk, sealed_pw>>
storeVars == <<vault_dir, files, next_id, proc, stored>>
apiVars == <<vault_unlocked, resp>>
histVars == <<tampered, rot>>
eraseVars == <<sd>>
authVars == <<user, totp, sessions, clock, vs, revoked>>
readVars == <<rd>>

\* ------------------------------------------------- AEAD (ChaCha20Poly1305)
AuthFailure == [ok |-> FALSE, pt |-> None]

\* cipher.encrypt(nonce, plaintext, None)
AeadEncrypt(key, nonce, plaintext) ==
    [key |-> key, nonce |-> nonce, pt |-> plaintext]

\* cipher.decrypt(nonce, ciphertext, None): InvalidTag unless key and nonce match
AeadDecrypt(key, nonce, ct) ==
    IF ct.key = key /\ ct.nonce = nonce
    THEN [ok |-> TRUE, pt |-> ct.pt]
    ELSE AuthFailure

\* ------------------------------------------------------- key derivation
\* The encoded Argon2 hash is "$argon2id$v=19$m=65536,t=3,p=1$<salt>$<hash>":
\* PasswordHasher.hash draws its own random salt, and the `salt` argument is
\* not passed to it.  hs is the hasher's random draw.
argon2_hash(password, hs) ==
    [params |-> "$argon2id$v=19$m=65536,t=3,p=1$", hsalt |-> hs, pw |-> password]

\* derived_key[:32]: the 31 characters of the parameter prefix and the first
\* character of the hasher's salt; the password-dependent tail is cut off.
First32(h) == [params |-> h.params, hsalt |-> h.hsalt]

derive_key_from_password(password, salt, hs) == argon2_hash(password, hs)

NoFile == [exists |-> FALSE]

\* seal_master_key: fresh salt, fresh nonce, key = derived_key[:32]
seal_master_key(mk, password, salt, nonce, hs) ==
    [exists |-> TRUE,
     salt |-> salt,
     nonce |-> nonce,
     sealed_data |->
        AeadEncrypt(First32(derive_key_from_password(password, salt, hs)), nonce, mk)]

\* unseal_master_key, lines 66-67: the key it derives from the stored salt
unseal_key(sealed, password, hs) ==
    First32(derive_key_from_password(password, sealed.salt, hs))

\* field values json.loads / sealed_info[...] / base64.b64decode raise on: the
\* field is not in the file, or its text has incorrect base64 padding
Undecodable == {"missing", "bad_base64"}

\* length in bytes of a decoded salt / nonce
salt_len(salt) == IF salt = "salt_16" THEN 16 ELSE 32
nonce_len(nonce) == IF nonce = "nonce_8" THEN 8 ELSE 12

\* unseal_master_key: decode the three fields, derive, decrypt; any exception
\* becomes ValueError (ok = FALSE).  The salt's length is not looked at; a
\* nonce that is not 12 bytes makes cipher.decrypt raise.
unseal_master_key(sealed, password, hs) ==
    IF sealed.salt \in Undecodable \/ sealed.nonce \in Undecodable
    THEN AuthFailure
    ELSE IF nonce_len(sealed.nonce) # 12
    THEN AuthFailure
    ELSE AeadDecrypt(unseal_key(sealed, password, hs), sealed.nonce,
                     sealed.sealed_data)

\* is_unlocked() as it would be if it trusted the flag alone
is_unlocked_flag_only == unlocked_flag

\* is_unlocked()
is_unlocked == unlocked_flag /\ master_key # None

\* the guard of derive_file_key / encrypt_file / decrypt_file
KeyGuardPasses == unlocked_flag /\ master_key # None

\* derive_file_key: HKDF-SHA256(salt = "vaultusb_file_key", info = file_id)
hkdf(mk, file_id) == [label |-> "vaultusb_file_key", ikm |-> mk, info |-> file_id]

\* ------------------------------------------------------- storage values
Absent == [kind |-> "absent"]
\* the caller's bytes as written by store_file before encryption
Plain(p) == [kind |-> "plain", data |-> p]
\* nonce || ciphertext, as written by encrypt_file
Blob(nonce, ct) == [kind |-> "enc", nonce |-> nonce, ct |-> ct]
\* a file opened with 'wb' (truncated) whose write did not complete
Partial == [kind |-> "partial"]
\* a file overwritten by secure_delete with secrets.token_bytes
Random == [kind |-> "random"]

NoRecord == [exists |-> FALSE, encrypted_name |-> 0, user_id |-> 0, is_deleted |-> FALSE]
\* File(id, encrypted_name, user_id), is_deleted defaults to False
FileRecord(name, owner) ==
    [exists |-> TRUE, encrypted_name |-> name, user_id |-> owner, is_deleted |-> FALSE]

NoRet == [t |-> "none", fid |-> 0, data |-> None, ok |-> FALSE]
RaisedRuntimeError == [t |-> "RuntimeError", fid |-> 0, data |-> None, ok |-> FALSE]
ReturnedNone == [t |-> "None", fid |-> 0, data |-> None, ok |-> FALSE]
ReturnedFileId(f) == [t |-> "file_id", fid |-> f, data |-> None, ok |-> TRUE]
ReturnedBytes(p) == [t |-> "bytes", fid |-> 0, data |-> p, ok |-> TRUE]
ReturnedBool(b) == [t |-> "bool", fid |-> 0, data |-> None, ok |-> b]

ProcIdle ==
    [op |-> "none", pc |-> "idle", fid |-> 0, name |-> 0, owner |-> 0,
     data |-> None, ret |-> NoRet, why |-> "none"]

NotStored == [done |-> FALSE, data |-> None, mk |-> None, deleted |-> FALSE]

\* generate_encrypted_filename as it would be if it gave every file one name
generate_encrypted_filename_fixed(n) == 1

\* generate_file_id / generate_encrypted_filename: fresh values, never reused
generate_file_id(n) == n
generate_encrypted_filename(n) == n

\* the record filter as it would be without File.user_id == user.id
ActiveRecord_any_owner(file_id, owner) ==
    /\ file_id \in FileIds
    /\ files[file_id].exists
    /\ files[file_id].is_deleted = FALSE

\* the record filter as it would be without File.is_deleted == False
ActiveRecord_with_deleted(file_id, owner) ==
    /\ file_id \in FileIds
    /\ files[file_id].exists
    /\ files[file_id].user_id = owner

\* the filter of retrieve_file, delete_file and get_file_info
ActiveRecord(file_id, owner) ==
    /\ file_id \in FileIds
    /\ files[file_id].exists
    /\ files[file_id].user_id = owner
    /\ files[file_id].is_deleted = FALSE

\* a call ends: its result and (history) the branch that produced it
Finish(w, r, reason) ==
    proc' = [proc EXCEPT ![w].pc = "done", ![w].ret = r, ![w].why = reason]

Goto(w, label) == proc' = [proc EXCEPT ![w].pc = label]

\* ------------------------------------------------------------------ Init
NoKey == [params |-> None, hsalt |-> 0]

\* no API request served yet
NoResp == [endpoint |-> "none", status |-> 0, success |-> FALSE, message |-> "none",
           files |-> <<>>]

\* the key held in memory has not been resealed since the envelope was written
NoRot == [done |-> FALSE, old |-> None, mk |-> None, restarted |-> FALSE]

UlIdle == [pc |-> "idle", pw |-> None, key |-> NoKey, mk |-> None, ret |-> "none"]

\* secure_delete's file: its size in bytes, what its bytes are (0: as they
\* were before the call, k: the random draw of overwrite number k) and what of
\* that has reached the disk
NoSdFile == [exists |-> FALSE, size |-> 0, content |-> 0, durable |-> 0]

\* no secure_delete call in flight
SdIdle(file) ==
    [pc |-> "idle", file |-> file, file_size |-> 0, pass |-> 0, log |-> <<>>,
     existed |-> FALSE, ret |-> "none"]

\* User(totp_secret = None, totp_enabled = False) with the login password "pw1"
NewUser == [password_hash |-> [pw |-> "pw1"], totp_secret |-> None,
            totp_enabled |-> FALSE]

NoTotpCall == [op |-> "none", ok |-> FALSE, token_valid |-> FALSE]

\* no list_files, search_files, get_storage_stats or get_file_info call made yet
NoRead == [op |-> "none", owner |-> 0, limit |-> 0, offset |-> 0, matching |-> {},
           files |-> <<>>, total |-> 0]

\* A row of the Session table (exists, user_id, is_active, last_activity) and
\* the token create_session signed for its id (token: one was handed out,
\* issued: its 'iat' time); the token outlives the row.
NoSession == [exists |-> FALSE, user_id |-> 0, is_active |-> FALSE,
              last_activity |-> 0, issued |-> 0, token |-> FALSE]

\* no verify_session call in flight; late records that the call began after
\* the session had been invalidated or expired
VsIdle == [pc |-> "idle", sid |-> 0, ret |-> "none", late |-> FALSE]

\* A finished call hands its result to its caller before anything else runs:
\* the hand-over touches nothing but the call's own locals.
NoPendingReturn ==
    /\ ul.pc # "done"
    /\ \A w \in Workers : proc[w].pc # "done"
    /\ rd.op = "none"

Init ==
    /\ master_key_file = NoFile
    /\ master_key = None
    /\ unlocked_flag = FALSE
    /\ ul = UlIdle
    /\ lk = "idle"
    /\ sealed_pw = None
    /\ vault_dir = [n \in FileIds |-> Absent]
    /\ files = [f \in FileIds |-> NoRecord]
    /\ next_id = 1
    /\ proc = [w \in Workers |-> ProcIdle]
    /\ stored = [f \in FileIds |-> NotStored]
    /\ vault_unlocked = FALSE
    /\ resp = NoResp
    /\ tampered = "none"
    /\ rot = NoRot
    /\ sd = SdIdle(NoSdFile)
    /\ user = NewUser
    /\ totp = NoTotpCall
    /\ sessions = [i \in SessionIds |-> NoSession]
    /\ clock = 0
    /\ vs = VsIdle
    /\ revoked = {}
    /\ rd = NoRead

\* ----------------------------------------------------- Master Key Manager
\* save_master_key(master_key, password): seal and write the envelope
save_master_key(mk, password, salt, nonce, hs) ==
    /\ NoPendingReturn
    /\ master_key_file' = seal_master_key(mk, password, salt, nonce, hs)
    /\ sealed_pw' = password
    /\ tampered' = "none"
    /\ rot' = NoRot
    /\ UNCHANGED <<master_key, unlocked_flag, ul, lk>>
    /\ UNCHANGED storeVars
    /\ UNCHANGED <<eraseVars, authVars, readVars>>
    /\ UNCHANGED apiVars

\* load_master_key as it would be if a failed attempt locked the vault
load_master_key_locks_on_failure(password, hs) ==
    /\ NoPendingReturn
    /\ ul.pc = "idle"
    /\ \/ /\ ~master_key_file.exists
          /\ ul' = [UlIdle EXCEPT !.pc = "done", !.pw = password, !.ret = "False"]
          /\ master_key' = None
          /\ unlocked_flag' = FALSE
       \/ /\ master_key_file.exists
          /\ LET r == unseal_master_key(master_key_file, password, hs)
                 call == [UlIdle EXCEPT !.pw = password,
                                        !.key = unseal_key(master_key_file, password, hs)]
             IN IF r.ok
                THEN /\ ul' = [call EXCEPT !.pc = "set_key", !.mk = r.pt]
                     /\ UNCHANGED <<master_key, unlocked_flag>>
                ELSE /\ ul' = [call EXCEPT !.pc = "done", !.ret = "False"]
                     /\ master_key' = None
                     /\ unlocked_flag' = FALSE
    /\ UNCHANGED <<master_key_file, lk, sealed_pw>>
    /\ UNCHANGED storeVars
    /\ UNCHANGED <<eraseVars, authVars, readVars>>
    /\ UNCHANGED <<apiVars, histVars>>

\* load_master_key, lines 78-85 (right-hand side): read the file and unseal
load_master_key(password, hs) ==
    /\ NoPendingReturn
    /\ ul.pc = "idle"
    /\ \/ /\ ~master_key_file.exists
          /\ ul' = [UlIdle EXCEPT !.pc = "done", !.pw = password, !.ret = "False"]
       \/ /\ master_key_file.exists
          /\ LET r == unseal_master_key(master_key_file, password, hs)
                 call == [UlIdle EXCEPT !.pw = password,
                                        !.key = unseal_key(master_key_file, password, hs)]
             IN IF r.ok
                THEN ul' = [call EXCEPT !.pc = "set_key", !.mk = r.pt]
                ELSE ul' = [call EXCEPT !.pc = "done", !.ret = "False"]
    /\ UNCHANGED <<master_key_file, master_key, unlocked_flag, lk, sealed_pw>>
    /\ UNCHANGED storeVars
    /\ UNCHANGED <<eraseVars, authVars, readVars>>
    /\ UNCHANGED <<apiVars, histVars>>

\* line 85: self._master_key = <unsealed key>
LoadSetKey ==
    /\ NoPendingReturn
    /\ ul.pc = "set_key"
    /\ master_key' = ul.mk
    /\ ul' = [ul EXCEPT !.pc = "set_flag"]
    /\ UNCHANGED <<master_key_file, unlocked_flag, lk, sealed_pw>>
    /\ UNCHANGED storeVars
    /\ UNCHANGED <<eraseVars, authVars, readVars>>
    /\ UNCHANGED <<apiVars, histVars>>

\* lines 86-87: self._is_unlocked = True; return True
LoadSetFlag ==
    /\ NoPendingReturn
    /\ ul.pc = "set_flag"
    /\ unlocked_flag' = TRUE
    /\ ul' = [ul EXCEPT !.pc = "done", !.ret = "True"]
    /\ UNCHANGED <<master_key_file, master_key, lk, sealed_pw>>
    /\ UNCHANGED storeVars
    /\ UNCHANGED <<eraseVars, authVars, readVars>>
    /\ UNCHANGED <<apiVars, histVars>>

\* the caller has taken load_master_key's result
LoadReturn ==
    /\ ul.pc = "done"
    /\ ul' = UlIdle
    /\ UNCHANGED <<master_key_file, master_key, unlocked_flag, lk, sealed_pw>>
    /\ UNCHANGED storeVars
    /\ UNCHANGED <<eraseVars, authVars, readVars>>
    /\ UNCHANGED <<apiVars, histVars>>

\* lock as it would be if it cleared the flag and left the key in memory
LockClearKey_keeps_key ==
    /\ NoPendingReturn
    /\ lk = "idle"
    /\ lk' = "clear_flag"
    /\ UNCHANGED <<master_key_file, master_key, unlocked_flag, ul, sealed_pw>>
    /\ UNCHANGED storeVars
    /\ UNCHANGED <<eraseVars, authVars, readVars>>
    /\ UNCHANGED <<apiVars, histVars>>

\* lock, line 201: self._master_key = None
LockClearKey ==
    /\ NoPendingReturn
    /\ lk = "idle"
    /\ master_key' = None
    /\ lk' = "clear_flag"
    /\ UNCHANGED <<master_key_file, unlocked_flag, ul, sealed_pw>>
    /\ UNCHANGED storeVars
    /\ UNCHANGED <<eraseVars, authVars, readVars>>
    /\ UNCHANGED <<apiVars, histVars>>

\* lock, line 202: self._is_unlocked = False
LockClearFlag ==
    /\ NoPendingReturn
    /\ lk = "clear_flag"
    /\ unlocked_flag' = FALSE
    /\ lk' = "idle"
    /\ UNCHANGED <<master_key_file, master_key, ul, sealed_pw>>
    /\ UNCHANGED storeVars
    /\ UNCHANGED <<eraseVars, authVars, readVars>>
    /\ UNCHANGED <<apiVars, histVars>>

\* save_master_key(self._master_key, new_password) on an unlocked vault: the
\* key held in memory is sealed again and the envelope file overwritten
rotate_password(new_password, salt, nonce, hs) ==
    /\ NoPendingReturn
    /\ is_unlocked
    /\ master_key_file.exists
    /\ master_key_file' = seal_master_key(master_key, new_password, salt, nonce, hs)
    /\ sealed_pw' = new_password
    /\ tampered' = "none"
    /\ rot' = [done |-> TRUE, old |-> sealed_pw, mk |-> master_key,
               restarted |-> FALSE]
    /\ UNCHANGED <<master_key, unlocked_flag, ul, lk>>
    /\ UNCHANGED storeVars
    /\ UNCHANGED <<eraseVars, authVars, readVars>>
    /\ UNCHANGED apiVars

\* the process restarts: CryptoManager.__init__ and main.py's globals run
\* again, the calls in flight are gone; the envelope, the vault directory and
\* the database stay
Restart ==
    /\ master_key' = None
    /\ unlocked_flag' = FALSE
    /\ ul' = UlIdle
    /\ lk' = "idle"
    /\ proc' = [w \in Workers |-> ProcIdle]
    /\ vault_unlocked' = FALSE
    /\ resp' = NoResp
    /\ rot' = [rot EXCEPT !.restarted = rot.done]
    /\ UNCHANGED <<master_key_file, sealed_pw, tampered, vault_dir, files, next_id,
                   stored>>
    /\ UNCHANGED <<eraseVars, authVars, readVars>>

\* ------------------------------------------------------- envelope on disk
\* a ciphertext that is not the output of any encryption
Garbled == [key |-> NoKey, nonce |-> None, pt |-> None]

\* the envelope file after open(self.master_key_file, 'w') truncated it and
\* the write did not complete: not a JSON document with the three fields
Truncated ==
    [exists |-> TRUE, salt |-> "missing", nonce |-> "missing", sealed_data |-> Garbled]

\* save_master_key, lines 101-106, when f.write raises or the process dies
\* after the open: the file that held the previous envelope is left
\* truncated; the except returns False
save_master_key_fails ==
    /\ NoPendingReturn
    /\ master_key_file' = Truncated
    /\ sealed_pw' = None
    /\ tampered' = "none"
    /\ rot' = NoRot
    /\ UNCHANGED <<master_key, unlocked_flag, ul, lk>>
    /\ UNCHANGED storeVars
    /\ UNCHANGED <<eraseVars, authVars, readVars>>
    /\ UNCHANGED apiVars

\* the envelope file as load_master_key finds it when one of its fields was
\* changed on disk after it was sealed
TamperEnvelope(field) ==
    /\ NoPendingReturn
    /\ master_key_file.exists
    /\ tampered = "none"
    /\ \/ /\ field = "salt"
          /\ \E x \in (Salts \cup {"salt_x", "salt_16"} \cup Undecodable)
                        \ {master_key_file.salt} :
                master_key_file' = [master_key_file EXCEPT !.salt = x]
       \/ /\ field = "nonce"
          /\ \E x \in (Nonces \cup {"nonce_x", "nonce_8"} \cup Undecodable)
                        \ {master_key_file.nonce} :
                master_key_file' = [master_key_file EXCEPT !.nonce = x]
       \/ /\ field = "sealed_data"
          /\ master_key_file' = [master_key_file EXCEPT !.sealed_data = Garbled]
    /\ tampered' = field
    /\ UNCHANGED <<master_key, unlocked_flag, ul, lk, sealed_pw, rot>>
    /\ UNCHANGED storeVars
    /\ UNCHANGED <<eraseVars, authVars, readVars>>
    /\ UNCHANGED apiVars

\* ---------------------------------------------------------- secure_delete
\* What secure_delete(path) can leave at an existing path.  It returns True
\* with the file unlinked; on an exception it returns False, with the file as
\* it was (the open failed) or overwritten (a later write, sync or unlink
\* failed).
secure_delete_outcomes(content) ==
    {[ok |-> TRUE, left |-> Absent],
     [ok |-> FALSE, left |-> content],
     [ok |-> FALSE, left |-> Random]}

\* range(3): the number of overwrite passes
Passes == 3

\* secure_delete(file_path), lines 173-178: Path.exists(), then stat().st_size
SdCall ==
    /\ sd.pc = "idle"
    /\ IF ~sd.file.exists
       THEN sd' = [SdIdle(sd.file) EXCEPT !.pc = "done", !.ret = "True"]
       ELSE \/ sd' = [SdIdle(sd.file) EXCEPT !.pc = "open", !.existed = TRUE,
                                             !.file_size = sd.file.size]
            \/ sd' = [SdIdle(sd.file) EXCEPT !.pc = "done", !.existed = TRUE,
                                             !.ret = "False"]
    /\ UNCHANGED <<keyVars, storeVars, apiVars, histVars, authVars, readVars>>

\* line 181: open(file_path, 'r+b')
SdOpen ==
    /\ sd.pc = "open"
    /\ \/ sd' = [sd EXCEPT !.pc = "write"]
       \/ sd' = [sd EXCEPT !.pc = "done", !.ret = "False"]
    /\ UNCHANGED <<keyVars, storeVars, apiVars, histVars, authVars, readVars>>

\* the overwrite as it would be without the flush and fsync after it
SdWrite_no_sync ==
    /\ sd.pc = "write"
    /\ sd' = [sd EXCEPT !.pc = IF sd.pass + 1 = Passes THEN "unlink" ELSE "write",
                        !.pass = sd.pass + 1,
                        !.file.content = sd.pass + 1,
                        !.log = Append(sd.log, [ev |-> "write", bytes |-> sd.file_size])]
    /\ UNCHANGED <<keyVars, storeVars, apiVars, histVars, authVars, readVars>>

\* lines 183-184: f.seek(0); f.write(secrets.token_bytes(file_size))
SdWrite ==
    /\ sd.pc = "write"
    /\ \/ sd' = [sd EXCEPT !.pc = "sync",
                           !.file.content = sd.pass + 1,
                           !.log = Append(sd.log, [ev |-> "write",
                                                   bytes |-> sd.file_size])]
       \/ sd' = [sd EXCEPT !.pc = "done", !.ret = "False"]
    /\ UNCHANGED <<keyVars, storeVars, apiVars, histVars, authVars, readVars>>

\* lines 185-186: f.flush(); os.fsync(f.fileno()); then the next pass, or the
\* end of the loop
SdSync ==
    /\ sd.pc = "sync"
    /\ \/ sd' = [sd EXCEPT !.pc = IF sd.pass + 1 = Passes THEN "unlink" ELSE "write",
                           !.pass = sd.pass + 1,
                           !.file.durable = sd.file.content,
                           !.log = Append(sd.log, [ev |-> "sync",
                                                   bytes |-> sd.file_size])]
       \/ sd' = [sd EXCEPT !.pc = "done", !.ret = "False"]
    /\ UNCHANGED <<keyVars, storeVars, apiVars, histVars, authVars, readVars>>

\* lines 189-190: file_path.unlink(); return True
SdUnlink ==
    /\ sd.pc = "unlink"
    /\ \/ sd' = [sd EXCEPT !.pc = "done", !.ret = "True", !.file = NoSdFile,
                           !.log = Append(sd.log, [ev |-> "unlink", bytes |-> 0])]
       \/ sd' = [sd EXCEPT !.pc = "done", !.ret = "False"]
    /\ UNCHANGED <<keyVars, storeVars, apiVars, histVars, authVars, readVars>>

\* the caller has taken secure_delete's result
SdReturn ==
    /\ sd.pc = "done"
    /\ sd' = SdIdle(sd.file)
    /\ UNCHANGED <<keyVars, storeVars, apiVars, histVars, authVars, readVars>>

\* a file of the given size comes to exist at the path
SdFileCreated(size) ==
    /\ sd.pc = "idle"
    /\ ~sd.file.exists
    /\ sd' = SdIdle([exists |-> TRUE, size |-> size, content |-> 0, durable |-> 0])
    /\ UNCHANGED <<keyVars, storeVars, apiVars, histVars, authVars, readVars>>

\* ---------------------------------------------------------- store_file
\* the content encrypt_file leaves at file_path (lines 119, 131-140), given
\* the master key read at line 119 and the file as read at line 132
encrypt_file(content, mk, file_id, nonce) ==
    Blob(nonce, AeadEncrypt(hkdf(mk, file_id), nonce, content.data))

\* lines 37-48: the unlocked check, a fresh file id and on-disk name, then
\* open(encrypted_path, 'wb'); f.write(file_data).  quota is the number of
\* ids the run may allocate.
StoreBegin(w, data, owner, quota) ==
    /\ NoPendingReturn
    /\ proc[w].pc = "idle"
    /\ IF ~is_unlocked
       THEN /\ proc' = [proc EXCEPT ![w] =
                  [ProcIdle EXCEPT !.op = "store", !.pc = "done", !.owner = owner,
                                   !.data = data, !.ret = RaisedRuntimeError,
                                   !.why = "locked"]]
            /\ UNCHANGED <<next_id, vault_dir>>
       ELSE /\ next_id <= quota
            /\ next_id' = next_id + 1
            /\ LET fid == generate_file_id(next_id)
                   name == generate_encrypted_filename(next_id)
                   call == [ProcIdle EXCEPT !.op = "store", !.owner = owner,
                                            !.data = data, !.fid = fid, !.name = name]
               IN \/ /\ vault_dir' = [vault_dir EXCEPT ![name] = Plain(data)]
                     /\ proc' = [proc EXCEPT ![w] = [call EXCEPT !.pc = "st_enc_guard"]]
                  \/ \* the open fails: nothing is created; except -> return None
                     /\ UNCHANGED vault_dir
                     /\ proc' = [proc EXCEPT ![w] =
                           [call EXCEPT !.pc = "done", !.ret = ReturnedNone,
                                        !.why = "io_error"]]
                  \/ \* the write fails after the open created the file
                     /\ vault_dir' = [vault_dir EXCEPT ![name] = Partial]
                     /\ proc' = [proc EXCEPT ![w] =
                           [call EXCEPT !.pc = "done", !.ret = ReturnedNone,
                                        !.why = "io_error"]]
    /\ UNCHANGED <<files, stored>>
    /\ UNCHANGED keyVars
    /\ UNCHANGED <<eraseVars, authVars, readVars>>
    /\ UNCHANGED <<apiVars, histVars>>

\* encrypt_file, lines 123-124: the guard outside its try; the RuntimeError
\* reaches store_file's except (lines 72-74), which returns None
StoreEncryptGuard(w) ==
    /\ NoPendingReturn
    /\ proc[w].pc = "st_enc_guard"
    /\ IF KeyGuardPasses
       THEN Goto(w, "st_derive_guard")
       ELSE Finish(w, ReturnedNone, "locked")
    /\ UNCHANGED <<vault_dir, files, next_id, stored>>
    /\ UNCHANGED keyVars
    /\ UNCHANGED <<eraseVars, authVars, readVars>>
    /\ UNCHANGED <<apiVars, histVars>>

\* lines 51-54: encrypt_file returned False: encrypted_path.unlink(); return None
StoreUnlink(w) ==
    /\ vault_dir' = [vault_dir EXCEPT ![proc[w].name] = Absent]
    /\ Finish(w, ReturnedNone, "encrypt_failed")
    /\ UNCHANGED <<files, stored>>

\* derive_file_key, lines 110-111, inside encrypt_file's try: encrypt_file
\* returns False and store_file unlinks
StoreDeriveGuard(w) ==
    /\ NoPendingReturn
    /\ proc[w].pc = "st_derive_guard"
    /\ IF KeyGuardPasses
       THEN /\ Goto(w, "st_encrypt")
            /\ UNCHANGED <<vault_dir, files, stored>>
       ELSE StoreUnlink(w)
    /\ UNCHANGED next_id
    /\ UNCHANGED keyVars
    /\ UNCHANGED <<eraseVars, authVars, readVars>>
    /\ UNCHANGED <<apiVars, histVars>>

\* lines 57-74: session.add; session.commit; return file_id.  A failed commit
\* raises into the except, which returns None.
StoreCommit(w, blob) ==
    \/ /\ files' = [files EXCEPT ![proc[w].fid] =
                       FileRecord(proc[w].name, proc[w].owner)]
       /\ stored' = [stored EXCEPT ![proc[w].fid] =
                       [done |-> TRUE, data |-> proc[w].data, mk |-> blob.ct.key.ikm,
                        deleted |-> FALSE]]
       /\ Finish(w, ReturnedFileId(proc[w].fid), "ok")
    \/ /\ UNCHANGED <<files, stored>>
       /\ Finish(w, ReturnedNone, "commit_failed")

\* encrypt_file lines 119-145 (hkdf.derive(self._master_key), read, encrypt,
\* write back), then the rest of store_file
StoreEncrypt(w) ==
    /\ NoPendingReturn
    /\ proc[w].pc = "st_encrypt"
    /\ \/ \* the key was cleared after the guard: derive raises, return False
          /\ master_key = None
          /\ StoreUnlink(w)
       \/ /\ master_key # None
          /\ \E nonce \in FileNonces :
                LET blob == encrypt_file(vault_dir[proc[w].name], master_key,
                                         proc[w].fid, nonce)
                IN /\ vault_dir' = [vault_dir EXCEPT ![proc[w].name] = blob]
                   /\ StoreCommit(w, blob)
       \/ \* the read or the write back fails: return False
          /\ master_key # None
          /\ StoreUnlink(w)
    /\ UNCHANGED next_id
    /\ UNCHANGED keyVars
    /\ UNCHANGED <<eraseVars, authVars, readVars>>
    /\ UNCHANGED <<apiVars, histVars>>

\* ---------------------------------------------------------- retrieve_file
\* lines 78-79
RetrieveBegin(w, file_id, owner) ==
    /\ NoPendingReturn
    /\ proc[w].pc = "idle"
    /\ proc' = [proc EXCEPT ![w] =
          IF ~is_unlocked
          THEN [ProcIdle EXCEPT !.op = "retrieve", !.pc = "done", !.fid = file_id,
                                !.owner = owner, !.ret = RaisedRuntimeError,
                                !.why = "locked"]
          ELSE [ProcIdle EXCEPT !.op = "retrieve", !.pc = "rt_query", !.fid = file_id,
                                !.owner = owner]]
    /\ UNCHANGED <<vault_dir, files, next_id, stored>>
    /\ UNCHANGED keyVars
    /\ UNCHANGED <<eraseVars, authVars, readVars>>
    /\ UNCHANGED <<apiVars, histVars>>

\* lines 82-94: the record query and the exists() test
RetrieveQuery(w) ==
    /\ NoPendingReturn
    /\ proc[w].pc = "rt_query"
    /\ IF ~ActiveRecord(proc[w].fid, proc[w].owner)
       THEN Finish(w, ReturnedNone, "not_found")
       ELSE IF vault_dir[files[proc[w].fid].encrypted_name] = Absent
            THEN Finish(w, ReturnedNone, "no_blob")
            ELSE proc' = [proc EXCEPT ![w].pc = "rt_guards",
                                      ![w].name = files[proc[w].fid].encrypted_name]
    /\ UNCHANGED <<vault_dir, files, next_id, stored>>
    /\ UNCHANGED keyVars
    /\ UNCHANGED <<eraseVars, authVars, readVars>>
    /\ UNCHANGED <<apiVars, histVars>>

\* decrypt_file lines 149-150 (RuntimeError) and derive_file_key lines
\* 110-111 (RuntimeError, re-raised as ValueError): both are caught by
\* retrieve_file's except, which returns None
RetrieveGuards(w) ==
    /\ NoPendingReturn
    /\ proc[w].pc = "rt_guards"
    /\ IF KeyGuardPasses
       THEN Goto(w, "rt_decrypt")
       ELSE Finish(w, ReturnedNone, "locked")
    /\ UNCHANGED <<vault_dir, files, next_id, stored>>
    /\ UNCHANGED keyVars
    /\ UNCHANGED <<eraseVars, authVars, readVars>>
    /\ UNCHANGED <<apiVars, histVars>>

\* decrypt_file as it would be if it derived the key without the file id
\* (HKDF info left empty) while encrypt_file derives it with the file id
decrypt_file_no_info(content, mk, file_id) ==
    IF content.kind = "enc"
    THEN AeadDecrypt(hkdf(mk, 0), content.nonce, content.ct)
    ELSE AuthFailure

\* decrypt_file as it would be if it handed back whatever bytes it finds when
\* they are not an intact blob, instead of failing authentication
decrypt_file_unauthenticated(content, mk, file_id) ==
    IF content.kind = "enc"
    THEN AeadDecrypt(hkdf(mk, file_id), content.nonce, content.ct)
    ELSE [ok |-> TRUE, pt |-> "damaged"]

\* what decrypt_file makes of the file's content under the master key read at
\* line 119: encrypted_data[:12], encrypted_data[12:], cipher.decrypt
decrypt_file(content, mk, file_id) ==
    IF content.kind = "enc"
    THEN AeadDecrypt(hkdf(mk, file_id), content.nonce, content.ct)
    ELSE AuthFailure

\* lines 119, 157-169 and retrieve_file's return / except
RetrieveDecrypt(w) ==
    /\ NoPendingReturn
    /\ proc[w].pc = "rt_decrypt"
    /\ IF master_key = None
       THEN Finish(w, ReturnedNone, "locked")
       ELSE IF vault_dir[proc[w].name] = Absent
            THEN Finish(w, ReturnedNone, "no_blob")
            ELSE LET r == decrypt_file(vault_dir[proc[w].name], master_key, proc[w].fid) IN
                 IF r.ok
                 THEN Finish(w, ReturnedBytes(r.pt), "ok")
                 ELSE Finish(w, ReturnedNone, "decrypt_failed")
    /\ UNCHANGED <<vault_dir, files, next_id, stored>>
    /\ UNCHANGED keyVars
    /\ UNCHANGED <<eraseVars, authVars, readVars>>
    /\ UNCHANGED <<apiVars, histVars>>

\* ------------------------------------------------------------ delete_file
\* lines 106-107
DeleteBegin(w, file_id, owner) ==
    /\ NoPendingReturn
    /\ proc[w].pc = "idle"
    /\ proc' = [proc EXCEPT ![w] =
          IF ~is_unlocked
          THEN [ProcIdle EXCEPT !.op = "delete", !.pc = "done", !.fid = file_id,
                                !.owner = owner, !.ret = RaisedRuntimeError,
                                !.why = "locked"]
          ELSE [ProcIdle EXCEPT !.op = "delete", !.pc = "dl_mark", !.fid = file_id,
                                !.owner = owner]]
    /\ UNCHANGED <<vault_dir, files, next_id, stored>>
    /\ UNCHANGED keyVars
    /\ UNCHANGED <<eraseVars, authVars, readVars>>
    /\ UNCHANGED <<apiVars, histVars>>

\* lines 110-123: query; is_deleted = True; commit (a failed commit raises
\* into the except, which returns False)
DeleteMark(w) ==
    /\ NoPendingReturn
    /\ proc[w].pc = "dl_mark"
    /\ IF ~ActiveRecord(proc[w].fid, proc[w].owner)
       THEN /\ Finish(w, ReturnedBool(FALSE), "not_found")
            /\ UNCHANGED <<files, stored>>
       ELSE \/ /\ files' = [files EXCEPT ![proc[w].fid].is_deleted = TRUE]
               /\ stored' = [stored EXCEPT ![proc[w].fid] =
                     IF \E v \in Workers : /\ proc[v].op = "retrieve"
                                           /\ proc[v].fid = proc[w].fid
                     THEN [NotStored EXCEPT !.data = stored[proc[w].fid].data]
                     ELSE NotStored]
               /\ proc' = [proc EXCEPT ![w].pc = "dl_erase",
                                       ![w].name = files[proc[w].fid].encrypted_name]
            \/ /\ UNCHANGED <<files, stored>>
               /\ Finish(w, ReturnedBool(FALSE), "commit_failed")
    /\ UNCHANGED <<vault_dir, next_id>>
    /\ UNCHANGED keyVars
    /\ UNCHANGED <<eraseVars, authVars, readVars>>
    /\ UNCHANGED <<apiVars, histVars>>

\* lines 126-131: secure_delete if the path exists, its result dropped;
\* return True
DeleteErase(w) ==
    /\ NoPendingReturn
    /\ proc[w].pc = "dl_erase"
    /\ IF vault_dir[proc[w].name] = Absent
       THEN /\ UNCHANGED vault_dir
            /\ Finish(w, ReturnedBool(TRUE), "ok")
       ELSE \E o \in secure_delete_outcomes(vault_dir[proc[w].name]) :
               /\ vault_dir' = [vault_dir EXCEPT ![proc[w].name] = o.left]
               /\ Finish(w, ReturnedBool(TRUE), IF o.ok THEN "ok" ELSE "erase_failed")
    /\ stored' = [stored EXCEPT ![proc[w].fid].deleted = TRUE]
    /\ UNCHANGED <<files, next_id>>
    /\ UNCHANGED keyVars
    /\ UNCHANGED <<eraseVars, authVars, readVars>>
    /\ UNCHANGED <<apiVars, histVars>>

\* ------------------------------------------------- cleanup_deleted_files
\* the records cleanup_deleted_files selects: File.is_deleted == True
DeletedRecords == {f \in FileIds : files[f].exists /\ files[f].is_deleted}

\* cleanup_deleted_files: for every deleted record, secure_delete of its blob
\* if the path exists (the result dropped), then session.delete(record); one
\* session.commit() at the end, which removes the records or raises.  There
\* is no unlocked check.  o gives secure_delete's outcome per record.
cleanup_deleted_files ==
    /\ NoPendingReturn
    /\ DeletedRecords # {}
    /\ \E o \in [DeletedRecords ->
                    UNION {secure_delete_outcomes(vault_dir[n]) : n \in FileIds}] :
          /\ \A f \in DeletedRecords :
                o[f] \in secure_delete_outcomes(vault_dir[files[f].encrypted_name])
          /\ vault_dir' =
                [n \in FileIds |->
                    IF /\ vault_dir[n] # Absent
                       /\ \E f \in DeletedRecords : files[f].encrypted_name = n
                    THEN o[CHOOSE f \in DeletedRecords : files[f].encrypted_name = n].left
                    ELSE vault_dir[n]]
    /\ \/ files' = [f \in FileIds |->
                      IF f \in DeletedRecords THEN NoRecord ELSE files[f]]
       \/ UNCHANGED files
    /\ UNCHANGED <<next_id, proc, stored>>
    /\ UNCHANGED keyVars
    /\ UNCHANGED <<eraseVars, authVars, readVars>>
    /\ UNCHANGED <<apiVars, histVars>>

\* ------------------------------------------------ list / info / search / stats
\* the filter as it would be without File.is_deleted == False
ActiveOf_with_deleted(owner) ==
    {f \in FileIds : files[f].exists /\ files[f].user_id = owner}

\* the filter of list_files, search_files and get_storage_stats
ActiveOf(owner) == {f \in FileIds : ActiveRecord(f, owner)}

\* order_by(File.created_at.desc()): ids are allocated in creation order
RECURSIVE NewestFirst(_)
NewestFirst(S) ==
    IF S = {} THEN <<>>
    ELSE LET m == CHOOSE x \in S : \A y \in S : y <= x
         IN <<m>> \o NewestFirst(S \ {m})

\* list_files(user, limit, offset) -> (files, total)
list_files(owner, limit, offset) ==
    LET all == NewestFirst(ActiveOf(owner))
        last == IF offset + limit < Len(all) THEN offset + limit ELSE Len(all)
    IN [files |-> SubSeq(all, offset + 1, last), total |-> Len(all)]

\* get_file_info(file_id, user): the record or None
get_file_info(file_id, owner) ==
    IF ActiveRecord(file_id, owner) THEN files[file_id] ELSE NoRecord

\* search_files(query, user): matching is the set of ids whose original_name
\* contains the query
search_files(matching, owner) == NewestFirst(ActiveOf(owner) \cap matching)

\* get_storage_stats(user)["file_count"]
get_storage_stats(owner) == [file_count |-> Cardinality(ActiveOf(owner))]

\* storage_manager.list_files(user, limit, offset)
ListFiles(owner, limit, offset) ==
    /\ NoPendingReturn
    /\ rd' = [NoRead EXCEPT !.op = "list_files", !.owner = owner, !.limit = limit,
                            !.offset = offset,
                            !.files = list_files(owner, limit, offset).files,
                            !.total = list_files(owner, limit, offset).total]
    /\ UNCHANGED <<keyVars, storeVars, apiVars, histVars, eraseVars, authVars>>

\* storage_manager.search_files(query, user)
SearchFiles(matching, owner) ==
    /\ NoPendingReturn
    /\ rd' = [NoRead EXCEPT !.op = "search_files", !.owner = owner,
                            !.matching = matching,
                            !.files = search_files(matching, owner),
                            !.total = Len(search_files(matching, owner))]
    /\ UNCHANGED <<keyVars, storeVars, apiVars, histVars, eraseVars, authVars>>

\* storage_manager.get_storage_stats(user)
GetStorageStats(owner) ==
    /\ NoPendingReturn
    /\ rd' = [NoRead EXCEPT !.op = "get_storage_stats", !.owner = owner,
                            !.total = get_storage_stats(owner).file_count]
    /\ UNCHANGED <<keyVars, storeVars, apiVars, histVars, eraseVars, authVars>>

\* storage_manager.get_file_info(file_id, user)
GetFileInfo(file_id, owner) ==
    /\ NoPendingReturn
    /\ rd' = [NoRead EXCEPT !.op = "get_file_info", !.owner = owner,
                            !.matching = {file_id},
                            !.files = IF get_file_info(file_id, owner).exists
                                      THEN <<file_id>> ELSE <<>>,
                            !.total = IF get_file_info(file_id, owner).exists
                                      THEN 1 ELSE 0]
    /\ UNCHANGED <<keyVars, storeVars, apiVars, histVars, eraseVars, authVars>>

\* the caller has taken the result of the read-only call
ReadReturn ==
    /\ rd.op # "none"
    /\ rd' = NoRead
    /\ UNCHANGED <<keyVars, storeVars, apiVars, histVars, eraseVars, authVars>>

\* --------------------------------------------------------------- main.py
\* the response as it would be if the handler told a damaged envelope from a
\* wrong password
unlock_vault_response_leaky(success) ==
    [endpoint |-> "unlock", status |-> 200, success |-> success,
     message |-> IF success THEN "Vault unlocked successfully"
                 ELSE IF tampered # "none" THEN "Master key file is corrupted"
                 ELSE "Invalid master password",
     files |-> <<>>]

\* SuccessResponse(success, message) of POST /api/vault/unlock
unlock_vault_response(success) ==
    [endpoint |-> "unlock", status |-> 200, success |-> success,
     message |-> IF success THEN "Vault unlocked successfully"
                            ELSE "Invalid master password",
     files |-> <<>>]

\* unlock_vault, lines 197-204: load_master_key has returned to the handler
unlock_vault ==
    /\ ul.pc = "done"
    /\ vault_unlocked' = IF ul.ret = "True" THEN TRUE ELSE vault_unlocked
    /\ resp' = unlock_vault_response(ul.ret = "True")
    /\ ul' = UlIdle
    /\ UNCHANGED <<master_key_file, master_key, unlocked_flag, lk, sealed_pw>>
    /\ UNCHANGED storeVars
    /\ UNCHANGED <<eraseVars, authVars, readVars>>
    /\ UNCHANGED histVars

\* lock_vault: the last statement of crypto_manager.lock(), then
\* vault_unlocked = False and the response
lock_vault ==
    /\ NoPendingReturn
    /\ lk = "clear_flag"
    /\ unlocked_flag' = FALSE
    /\ lk' = "idle"
    /\ vault_unlocked' = FALSE
    /\ resp' = [endpoint |-> "lock", status |-> 200, success |-> TRUE,
                message |-> "Vault locked successfully", files |-> <<>>]
    /\ UNCHANGED <<master_key_file, master_key, ul, sealed_pw>>
    /\ UNCHANGED storeVars
    /\ UNCHANGED <<eraseVars, authVars, readVars>>
    /\ UNCHANGED histVars

\* the handler as it would be if it raised vault_unlocked whatever
\* load_master_key returned
unlock_vault_request_always_sets(password, hs) ==
    /\ NoPendingReturn
    /\ ul.pc = "idle" /\ lk = "idle"
    /\ LET success == /\ master_key_file.exists
                      /\ unseal_master_key(master_key_file, password, hs).ok
       IN /\ master_key' = IF success
                           THEN unseal_master_key(master_key_file, password, hs).pt
                           ELSE master_key
          /\ unlocked_flag' = IF success THEN TRUE ELSE unlocked_flag
          /\ vault_unlocked' = TRUE
          /\ resp' = unlock_vault_response(success)
    /\ UNCHANGED <<master_key_file, ul, lk, sealed_pw>>
    /\ UNCHANGED storeVars
    /\ UNCHANGED <<eraseVars, authVars, readVars>>
    /\ UNCHANGED histVars

\* POST /api/vault/unlock, lines 190-204, as the event loop runs it: the
\* handler has no await between load_master_key (crypto.py 76-90) and the
\* assignment of vault_unlocked, so no other request runs in between
unlock_vault_request(password, hs) ==
    /\ NoPendingReturn
    /\ ul.pc = "idle" /\ lk = "idle"
    /\ LET success == /\ master_key_file.exists
                      /\ unseal_master_key(master_key_file, password, hs).ok
       IN /\ master_key' = IF success
                           THEN unseal_master_key(master_key_file, password, hs).pt
                           ELSE master_key
          /\ unlocked_flag' = IF success THEN TRUE ELSE unlocked_flag
          /\ vault_unlocked' = IF success THEN TRUE ELSE vault_unlocked
          /\ resp' = unlock_vault_response(success)
    /\ UNCHANGED <<master_key_file, ul, lk, sealed_pw>>
    /\ UNCHANGED storeVars
    /\ UNCHANGED <<eraseVars, authVars, readVars>>
    /\ UNCHANGED histVars

\* POST /api/vault/lock, lines 206-214, as the event loop runs it:
\* crypto_manager.lock() (crypto.py 199-202), then vault_unlocked = False
lock_vault_request ==
    /\ NoPendingReturn
    /\ ul.pc = "idle" /\ lk = "idle"
    /\ master_key' = None
    /\ unlocked_flag' = FALSE
    /\ vault_unlocked' = FALSE
    /\ resp' = [endpoint |-> "lock", status |-> 200, success |-> TRUE,
                message |-> "Vault locked successfully", files |-> <<>>]
    /\ UNCHANGED <<master_key_file, ul, lk, sealed_pw>>
    /\ UNCHANGED storeVars
    /\ UNCHANGED <<eraseVars, authVars, readVars>>
    /\ UNCHANGED histVars

\* GET /api/vault/status, lines 216-223
vault_status ==
    /\ resp' = [endpoint |-> "status", status |-> 200,
                success |-> vault_unlocked /\ is_unlocked,
                message |-> "none", files |-> <<>>]
    /\ UNCHANGED vault_unlocked
    /\ UNCHANGED keyVars
    /\ UNCHANGED storeVars
    /\ UNCHANGED <<eraseVars, authVars, readVars>>
    /\ UNCHANGED histVars

\* check_vault_unlocked: HTTP 423 unless both flags are up
check_vault_unlocked == vault_unlocked /\ is_unlocked

\* GET /api/files: check_vault_unlocked, then storage_manager.list_files
api_list_files(owner, limit, offset) ==
    /\ NoPendingReturn
    /\ resp' = IF ~check_vault_unlocked
               THEN [endpoint |-> "list_files", status |-> 423, success |-> FALSE,
                     message |-> "Vault is locked. Please unlock with your password.",
                     files |-> <<>>]
               ELSE [endpoint |-> "list_files", status |-> 200, success |-> TRUE,
                     message |-> "none",
                     files |-> list_files(owner, limit, offset).files]
    /\ UNCHANGED vault_unlocked
    /\ UNCHANGED keyVars
    /\ UNCHANGED storeVars
    /\ UNCHANGED <<eraseVars, authVars, readVars>>
    /\ UNCHANGED histVars

\* the caller has taken the result of the call
Return(w) ==
    /\ proc[w].pc = "done"
    /\ proc' = [proc EXCEPT ![w] = ProcIdle]
    /\ UNCHANGED <<vault_dir, files, next_id, stored>>
    /\ UNCHANGED keyVars
    /\ UNCHANGED <<eraseVars, authVars, readVars>>
    /\ UNCHANGED <<apiVars, histVars>>

\* ------------------------------------------------------------------ Next
\* The Master Key Manager's operations, their inputs drawn from the given sets
KeyManagerNext(MKs, PWs, SAs, NOs, HSs) ==
    \/ \E mk \in MKs, pw \in PWs, salt \in SAs, nonce \in NOs, hs \in HSs :
          save_master_key(mk, pw, salt, nonce, hs)
    \/ \E pw \in PWs, hs \in HSs : load_master_key(pw, hs)
    \/ LoadSetKey
    \/ LoadSetFlag
    \/ LoadReturn
    \/ LockClearKey
    \/ LockClearFlag

\* The storage engine's calls, made by the workers Ws on the file ids Ids
StorageNext(Ws, Ids) ==
    \/ \E w \in Ws, d \in Payloads, o \in Owners :
          StoreBegin(w, d, o, Cardinality(Ids))
    \/ \E w \in Ws : StoreEncryptGuard(w)
    \/ \E w \in Ws : StoreDeriveGuard(w)
    \/ \E w \in Ws : StoreEncrypt(w)
    \/ \E w \in Ws, f \in Ids, o \in Owners : RetrieveBegin(w, f, o)
    \/ \E w \in Ws : RetrieveQuery(w)
    \/ \E w \in Ws : RetrieveGuards(w)
    \/ \E w \in Ws : RetrieveDecrypt(w)
    \/ \E w \in Ws, f \in Ids, o \in Owners : DeleteBegin(w, f, o)
    \/ \E w \in Ws : DeleteMark(w)
    \/ \E w \in Ws : DeleteErase(w)
    \/ \E w \in Ws : Return(w)

\* The storage engine, one call at a time, against unlock and lock running
\* beside it: one vault password, one draw of the sealing randomness.
Next ==
    \/ KeyManagerNext(MasterKeys, {"pw1"}, {"salt1"}, {"nonce1"}, {1})
    \/ StorageNext({"w1"}, 1..MaxFiles)

Spec == Init /\ [][Next]_vars

\* The storage engine with the reclamation pass cleanup_deleted_files running
\* beside it, on a vault provisioned with one master key.
NextPurge ==
    \/ KeyManagerNext({"mk1"}, {"pw1"}, {"salt1"}, {"nonce1"}, {1})
    \/ StorageNext({"w1"}, 1..MaxFiles)
    \/ cleanup_deleted_files

SpecPurge == Init /\ [][NextPurge]_vars

\* The Master Key Manager alone, over all passwords and sealing randomness.
NextKeys == KeyManagerNext(MasterKeys, Passwords, Salts, Nonces, HashSalts)

SpecKeys == Init /\ [][NextKeys]_vars

\* The Master Key Manager with password rotation and process restarts.
NextRotate ==
    \/ NextKeys
    \/ \E pw \in Passwords, salt \in Salts, nonce \in Nonces, hs \in HashSalts :
          rotate_password(pw, salt, nonce, hs)
    \/ Restart

SpecRotate == Init /\ [][NextRotate]_vars

\* The Master Key Manager with writes of the envelope file that fail.
NextPersist ==
    \/ NextKeys
    \/ save_master_key_fails

SpecPersist == Init /\ [][NextPersist]_vars

\* ---------------------------------------------------------------- auth.py
\* hash_password / verify_password: an Argon2 hash verifies for the password
\* it was made from and for no other
hash_password(password) == [pw |-> password]
verify_password(password, password_hash) == password_hash.pw = password

\* the code pyotp.TOTP(secret) shows in time step t
totp_at(secret, t) == [secret |-> secret, step |-> t]
\* the codes a client can send
Tokens == [secret : TotpSecrets, step : 0..MaxClock]

\* pyotp's TOTP.verify(token, valid_window=1): the code of the current time
\* step or of one of its two neighbours
totp_verify(secret, token, now) ==
    \E i \in {-1, 0, 1} : token = totp_at(secret, now + i)

\* verify_totp(user, token), lines 168-174
verify_totp(u, token) ==
    IF u.totp_secret = None \/ ~u.totp_enabled
    THEN FALSE
    ELSE totp_verify(u.totp_secret, token, clock)

\* setup_totp(user, password), lines 146-166; secret is pyotp.random_base32()
setup_totp(password, secret) ==
    /\ IF ~verify_password(password, user.password_hash)
       THEN /\ totp' = [op |-> "setup_totp", ok |-> FALSE, token_valid |-> FALSE]
            /\ user' = user
       ELSE /\ user' = [user EXCEPT !.totp_secret = secret, !.totp_enabled = FALSE]
            /\ totp' = [op |-> "setup_totp", ok |-> TRUE, token_valid |-> FALSE]
    /\ UNCHANGED <<sessions, clock, vs, revoked>>
    /\ UNCHANGED <<keyVars, storeVars, apiVars, histVars, eraseVars, readVars>>

\* enable_totp(user, token), lines 176-186, as POST /api/auth/verify-totp
\* calls it.  totp.token_valid records whether the token was a code of the
\* user's secret for the time of the call.
enable_totp(token) ==
    /\ user' = IF verify_totp(user, token)
               THEN [user EXCEPT !.totp_enabled = TRUE]
               ELSE user
    /\ totp' = [op |-> "enable_totp", ok |-> verify_totp(user, token),
                token_valid |-> /\ user.totp_secret # None
                                /\ totp_verify(user.totp_secret, token, clock)]
    /\ UNCHANGED <<sessions, clock, vs, revoked>>
    /\ UNCHANGED <<keyVars, storeVars, apiVars, histVars, eraseVars, readVars>>

\* disable_totp(user, password), lines 188-199
disable_totp(password) ==
    /\ IF ~verify_password(password, user.password_hash)
       THEN /\ totp' = [op |-> "disable_totp", ok |-> FALSE, token_valid |-> FALSE]
            /\ user' = user
       ELSE /\ user' = [user EXCEPT !.totp_secret = None, !.totp_enabled = FALSE]
            /\ totp' = [op |-> "disable_totp", ok |-> TRUE, token_valid |-> FALSE]
    /\ UNCHANGED <<sessions, clock, vs, revoked>>
    /\ UNCHANGED <<keyVars, storeVars, apiVars, histVars, eraseVars, readVars>>

\* change_password(user, current_password, new_password), lines 134-144
change_password(current_password, new_password) ==
    /\ IF ~verify_password(current_password, user.password_hash)
       THEN /\ totp' = [op |-> "change_password", ok |-> FALSE, token_valid |-> FALSE]
            /\ user' = user
       ELSE /\ user' = [user EXCEPT !.password_hash = hash_password(new_password)]
            /\ totp' = [op |-> "change_password", ok |-> TRUE, token_valid |-> FALSE]
    /\ UNCHANGED <<sessions, clock, vs, revoked>>
    /\ UNCHANGED <<keyVars, storeVars, apiVars, histVars, eraseVars, readVars>>

\* time passes: datetime.utcnow() and the TOTP time step move on
Tick ==
    /\ clock < MaxClock
    /\ clock' = clock + 1
    /\ UNCHANGED <<user, totp, sessions, vs, revoked>>
    /\ UNCHANGED <<keyVars, storeVars, apiVars, histVars, eraseVars, readVars>>

\* ------------------------------------------------------------- sessions
\* create_session(user), lines 56-78: a row with a fresh uuid4 id, active,
\* last_activity = now, and a token signed now for that id
create_session(i) ==
    /\ ~sessions[i].token
    /\ \A j \in SessionIds : j < i => sessions[j].token
    /\ sessions' = [sessions EXCEPT ![i] =
          [exists |-> TRUE, user_id |-> 1, is_active |-> TRUE,
           last_activity |-> clock, issued |-> clock, token |-> TRUE]]
    /\ UNCHANGED <<user, totp, clock, vs, revoked>>
    /\ UNCHANGED <<keyVars, storeVars, apiVars, histVars, eraseVars, readVars>>

\* serializer.loads(token): the signature is the server's and the token is no
\* older than expires_in = config.idle_timeout
loads(i, now) == sessions[i].token /\ sessions[i].issued + IdleTimeout >= now

\* the query of verify_session as it would be without Session.is_active == True
SessionRow_any_state(session_id, user_id) ==
    /\ sessions[session_id].exists
    /\ sessions[session_id].user_id = user_id

\* the query of verify_session, lines 91-95
SessionRow(session_id, user_id) ==
    /\ sessions[session_id].exists
    /\ sessions[session_id].user_id = user_id
    /\ sessions[session_id].is_active

\* verify_session(token), lines 82-98: loads, then the query
VerifyQuery(i) ==
    /\ vs.pc = "idle"
    /\ sessions[i].token
    /\ vs' = IF loads(i, clock) /\ SessionRow(i, 1)
             THEN [pc |-> "commit", sid |-> i, ret |-> "none", late |-> i \in revoked]
             ELSE [pc |-> "done", sid |-> i, ret |-> "None", late |-> i \in revoked]
    /\ UNCHANGED <<user, totp, sessions, clock, revoked>>
    /\ UNCHANGED <<keyVars, storeVars, apiVars, histVars, eraseVars, readVars>>

\* lines 100-106: last_activity = utcnow(); commit(); return the user.  The
\* UPDATE of a row deleted in the meantime raises, and the call returns None.
VerifyCommit ==
    /\ vs.pc = "commit"
    /\ IF sessions[vs.sid].exists
       THEN /\ sessions' = [sessions EXCEPT ![vs.sid].last_activity = clock]
            /\ vs' = [vs EXCEPT !.pc = "done", !.ret = "user"]
       ELSE /\ vs' = [vs EXCEPT !.pc = "done", !.ret = "None"]
            /\ UNCHANGED sessions
    /\ UNCHANGED <<user, totp, clock, revoked>>
    /\ UNCHANGED <<keyVars, storeVars, apiVars, histVars, eraseVars, readVars>>

\* the caller has taken verify_session's result
VerifyReturn ==
    /\ vs.pc = "done"
    /\ vs' = VsIdle
    /\ UNCHANGED <<user, totp, sessions, clock, revoked>>
    /\ UNCHANGED <<keyVars, storeVars, apiVars, histVars, eraseVars, readVars>>

\* invalidate_session(token), lines 113-132: returns True when the row exists
invalidate_session(i) ==
    /\ sessions[i].token
    /\ IF loads(i, clock) /\ sessions[i].exists
       THEN /\ sessions' = [sessions EXCEPT ![i].is_active = FALSE]
            /\ revoked' = revoked \cup {i}
       ELSE UNCHANGED <<sessions, revoked>>
    /\ UNCHANGED <<user, totp, clock, vs>>
    /\ UNCHANGED <<keyVars, storeVars, apiVars, histVars, eraseVars, readVars>>

\* the rows both clean-ups select: last_activity < utcnow() - idle_timeout
ExpiredSessions ==
    {i \in SessionIds : sessions[i].exists
                        /\ sessions[i].last_activity < clock - IdleTimeout}

\* AuthManager.cleanup_expired_sessions, lines 201-212: marks them inactive
cleanup_expired_sessions ==
    /\ sessions' = [i \in SessionIds |->
          IF i \in ExpiredSessions
          THEN [sessions[i] EXCEPT !.is_active = FALSE]
          ELSE sessions[i]]
    /\ revoked' = revoked \cup ExpiredSessions
    /\ UNCHANGED <<user, totp, clock, vs>>
    /\ UNCHANGED <<keyVars, storeVars, apiVars, histVars, eraseVars, readVars>>

\* db.cleanup_expired_sessions, lines 47-62: deletes them
db_cleanup_expired_sessions ==
    /\ sessions' = [i \in SessionIds |->
          IF i \in ExpiredSessions
          THEN [NoSession EXCEPT !.token = TRUE, !.issued = sessions[i].issued]
          ELSE sessions[i]]
    /\ revoked' = revoked \cup ExpiredSessions
    /\ UNCHANGED <<user, totp, clock, vs>>
    /\ UNCHANGED <<keyVars, storeVars, apiVars, histVars, eraseVars, readVars>>

\* secure_delete followed statement by statement, on files of every size.
NextErase ==
    \/ \E size \in 1..MaxSize : SdFileCreated(size)
    \/ SdCall
    \/ SdOpen
    \/ SdWrite
    \/ SdSync
    \/ SdUnlink
    \/ SdReturn

SpecErase == Init /\ [][NextErase]_vars

\* The second-factor and password operations of AuthManager on one user.
NextTotp ==
    \/ \E password \in Passwords, secret \in TotpSecrets : setup_totp(password, secret)
    \/ \E token \in Tokens : enable_totp(token)
    \/ \E password \in Passwords : disable_totp(password)
    \/ \E cur \in Passwords, new \in Passwords : change_password(cur, new)
    \/ Tick

SpecTotp == Init /\ [][NextTotp]_vars

\* Sessions: logins, token checks, logouts and both clean-ups, as time passes.
NextAuth ==
    \/ \E i \in SessionIds : create_session(i)
    \/ \E i \in SessionIds : VerifyQuery(i)
    \/ VerifyCommit
    \/ VerifyReturn
    \/ \E i \in SessionIds : invalidate_session(i)
    \/ cleanup_expired_sessions
    \/ db_cleanup_expired_sessions
    \/ Tick

SpecAuth == Init /\ [][NextAuth]_vars

\* The vault endpoints of main.py as the single event loop serves them, one
\* request at a time, on an envelope file that is provisioned and can be
\* altered on disk.
NextServe ==
    \/ \E mk \in MasterKeys, pw \in Passwords, hs \in HashSalts :
          save_master_key(mk, pw, "salt1", "nonce1", hs)
    \/ \E field \in {"salt", "nonce", "sealed_data"} : TamperEnvelope(field)
    \/ \E pw \in Passwords, hs \in HashSalts : unlock_vault_request(pw, hs)
    \/ lock_vault_request
    \/ vault_status
    \/ \E o \in Owners : api_list_files(o, MaxFiles, 0)

SpecServe == Init /\ [][NextServe]_vars

\* The read-only calls of the storage engine, made between the steps of
\* stores and deletes by two owners, on a vault that is unlocked and locked.
NextList ==
    \/ save_master_key("mk1", "pw1", "salt1", "nonce1", 1)
    \/ unlock_vault_request("pw1", 1)
    \/ lock_vault_request
    \/ StorageNext({"w1"}, 1..MaxFiles)
    \/ \E o \in Owners, limit \in 0..MaxFiles, offset \in 0..1 : ListFiles(o, limit, offset)
    \/ \E matching \in SUBSET (1..MaxFiles), o \in Owners : SearchFiles(matching, o)
    \/ \E o \in Owners : GetStorageStats(o)
    \/ \E f \in 1..MaxFiles, o \in Owners : GetFileInfo(f, o)
    \/ ReadReturn

SpecList == Init /\ [][NextList]_vars

\* Retrieves by one worker racing stores and deletes by another, the
\* reclamation pass, and unlock and lock, all followed statement by statement,
\* on the files of one owner.
NextRace ==
    \/ KeyManagerNext({"mk1"}, {"pw1"}, {"salt1"}, {"nonce1"}, {1})
    \/ \E d \in Payloads : StoreBegin("w1", d, 1, MaxFiles)
    \/ StoreEncryptGuard("w1")
    \/ StoreDeriveGuard("w1")
    \/ StoreEncrypt("w1")
    \/ \E f \in 1..MaxFiles : DeleteBegin("w1", f, 1)
    \/ DeleteMark("w1")
    \/ DeleteErase("w1")
    \/ \E f \in 1..MaxFiles : RetrieveBegin("w2", f, 1)
    \/ RetrieveQuery("w2")
    \/ RetrieveGuards("w2")
    \/ RetrieveDecrypt("w2")
    \/ \E w \in Workers : Return(w)
    \/ cleanup_deleted_files

SpecRace == Init /\ [][NextRace]_vars

\* Two workers making store, retrieve and delete calls at once, statement by
\* statement, on an unlocked vault; each worker stores its own payload.
NextConc ==
    \/ save_master_key("mk1", "pw1", "salt1", "nonce1", 1)
    \/ unlock_vault_request("pw1", 1)
    \/ \E w \in Workers :
          StoreBegin(w, IF w = "w1" THEN "hello" ELSE "other", 1, MaxFiles + 1)
    \/ \E w \in Workers : StoreEncryptGuard(w)
    \/ \E w \in Workers : StoreDeriveGuard(w)
    \/ \E w \in Workers : StoreEncrypt(w)
    \/ \E w \in Workers, f \in FileIds : RetrieveBegin(w, f, 1)
    \/ \E w \in Workers : RetrieveQuery(w)
    \/ \E w \in Workers : RetrieveGuards(w)
    \/ \E w \in Workers : RetrieveDecrypt(w)
    \/ \E w \in Workers, f \in FileIds : DeleteBegin(w, f, 1)
    \/ \E w \in Workers : DeleteMark(w)
    \/ \E w \in Workers : DeleteErase(w)
    \/ \E w \in Workers : Return(w)

SpecConc == Init /\ [][NextConc]_vars

\* The Master Key Manager behind the API handlers of main.py, with an
\* envelope file that can be altered on disk.
NextApi ==
    \/ KeyManagerNext(MasterKeys, Passwords, {"salt1"}, {"nonce1"}, HashSalts)
    \/ unlock_vault
    \/ lock_vault
    \/ \E o \in Owners : api_list_files(o, MaxFiles, 0)
    \/ \E field \in {"salt", "nonce", "sealed_data"} : TamperEnvelope(field)

SpecApi == Init /\ [][NextApi]_vars

\* ======================================================== claims C1 - C3
\* the load_master_key call takes its first step (reads the file and unseals)
UnsealStep == ul.pc = "idle" /\ ul'.pc # "idle" /\ master_key_file.exists

\* C1: once seal(mk, pw) is persisted, unlock(pw) with the same password
\* returns success (and holds exactly mk): no unlock with the sealing password
\* returns False.
C1_UnlockWithSealingPassword ==
    (ul.pc = "done" /\ master_key_file.exists /\ ul.pw = sealed_pw)
        => (ul.ret = "True" /\ ul.mk = master_key_file.sealed_data.pt)

\* C2: for an envelope sealed under pw1, unlock(pw2) with pw2 # pw1 fails and
\* holds no master key afterwards: the unseal step of a wrong password ends
\* the call with False and leaves the lock state alone.
C2_WrongPasswordFails ==
    [][(UnsealStep /\ ul'.pw # sealed_pw)
          => (ul'.pc = "done" /\ ul'.ret = "False"
              /\ UNCHANGED <<master_key, unlocked_flag>>)]_vars

\* C3: derive_key_from_password is a function of (password, salt): the key
\* unseal computes from the sealing password and the stored salt is the key
\* seal used.
C3_DeriveIsDeterministic ==
    [][(UnsealStep /\ ul'.pw = sealed_pw)
          => ul'.key = master_key_file.sealed_data.key]_vars

\* ======================================================= claims C4 - C10
\* worker w's call takes a step / takes the step that ends it
Steps(w) == proc'[w] # proc[w] /\ proc'[w].pc # "idle"
Ends(w) == proc[w].pc # "done" /\ proc'[w].pc = "done"

\* C4: while the vault is Locked, store, retrieve and delete fail with
\* RuntimeError and leave the vault directory, the file records and the
\* envelope unchanged.
C4_LockGating ==
    [][\A w \in Workers :
          (proc[w].pc = "idle" /\ proc'[w].pc # "idle"
           /\ (~unlocked_flag \/ master_key = None))
            => (/\ proc'[w].pc = "done"
                /\ proc'[w].ret = RaisedRuntimeError
                /\ UNCHANGED <<vault_dir, files, master_key_file>>)]_vars

\* a delete refused on a locked vault that holds a stored file
C4_Witness ==
    \E w \in Workers :
        /\ proc[w].pc = "done" /\ proc[w].op = "delete"
        /\ proc[w].ret = RaisedRuntimeError
        /\ ~unlocked_flag
        /\ proc[w].fid \in FileIds
        /\ files[proc[w].fid].exists /\ ~files[proc[w].fid].is_deleted
        /\ vault_dir[files[proc[w].fid].encrypted_name].kind = "enc"

\* C5: at every state, during and after any store call, no file in the vault
\* directory holds the caller's plaintext bytes.
C5_NoPlaintextOnDisk ==
    \A n \in FileIds : vault_dir[n].kind # "plain"

\* the vault is unlocked with the master key file f was stored under, and f's
\* record is active and owned by o
Retrievable(f, o) ==
    /\ f \in FileIds
    /\ stored[f].done
    /\ unlocked_flag /\ master_key = stored[f].mk
    /\ files[f].exists /\ ~files[f].is_deleted /\ files[f].user_id = o

\* C6: in a vault unlocked with the same master key, retrieve(fileId, o) of a
\* file that store(p, name, o) returned and that has not been deleted returns
\* exactly p.
C6_StoreRetrieveRoundTrip ==
    [][\A w \in Workers :
          (Ends(w) /\ proc'[w].op = "retrieve"
           /\ Retrievable(proc'[w].fid, proc'[w].owner))
            => proc'[w].ret = ReturnedBytes(stored[proc'[w].fid].data)]_vars

\* a retrieve that has returned the stored bytes
C6_Witness ==
    \E w \in Workers :
        /\ proc[w].pc = "done" /\ proc[w].op = "retrieve"
        /\ proc[w].ret.t = "bytes"
        /\ proc[w].ret.data = stored[proc[w].fid].data
        /\ proc[w].ret.data = "other"

\* f has a record and it belongs to another owner than o
OwnedByOther(f, o) ==
    f \in FileIds /\ files[f].exists /\ files[f].user_id # o

\* C7: retrieve and delete by another owner than the one that stored the file
\* never return the plaintext or success, and change neither the record nor
\* the blob.
C7_OwnerIsolation ==
    [][\A w \in Workers :
          (Steps(w) /\ proc'[w].op \in {"retrieve", "delete"}
           /\ OwnedByOther(proc'[w].fid, proc'[w].owner))
            => (/\ proc'[w].ret.t # "bytes"
                /\ proc'[w].ret # ReturnedBool(TRUE)
                /\ files'[proc'[w].fid] = files[proc'[w].fid]
                /\ vault_dir'[files[proc'[w].fid].encrypted_name]
                     = vault_dir[files[proc'[w].fid].encrypted_name])]_vars

\* a retrieve by another owner of a file that is active and intact has
\* returned None
C7_Witness ==
    \E w \in Workers :
        /\ proc[w].pc = "done" /\ proc[w].op = "retrieve"
        /\ proc[w].ret = ReturnedNone
        /\ OwnedByOther(proc[w].fid, proc[w].owner)
        /\ ~files[proc[w].fid].is_deleted
        /\ is_unlocked /\ master_key = stored[proc[w].fid].mk
        /\ vault_dir[files[proc[w].fid].encrypted_name].kind = "enc"

\* C8: whenever store returns, a blob written by the call exists in the vault
\* directory if and only if its file record was committed.
C8_NoOrphanBlob ==
    \A w \in Workers :
        (proc[w].pc = "done" /\ proc[w].op = "store" /\ proc[w].name \in FileIds)
            => (vault_dir[proc[w].name] # Absent <=> files[proc[w].fid].exists)

\* C9: retrieve never reports a decryption failure with the result it reports
\* when no matching record exists (None).
C9_DecryptFailureIsNotNotFound ==
    \A w \in Workers :
        (proc[w].pc = "done" /\ proc[w].op = "retrieve"
         /\ proc[w].why = "decrypt_failed")
            => proc[w].ret # ReturnedNone

\* C10: when delete returns success, the record is marked deleted and the blob
\* is gone from the vault directory.
C10_DeleteRemovesBlob ==
    \A w \in Workers :
        (proc[w].pc = "done" /\ proc[w].op = "delete"
         /\ proc[w].ret = ReturnedBool(TRUE))
            => (/\ files[proc[w].fid].is_deleted
                /\ vault_dir[proc[w].name] = Absent)

\* ====================================================== claims C11 - C20
\* C11: when the secure erase of the blob fails, delete_file does not return
\* success (secure_delete itself reports the failure; delete_file must pass it
\* on).
C11_EraseFailureReported ==
    \A w \in Workers :
        (proc[w].pc = "done" /\ proc[w].op = "delete" /\ proc[w].why = "erase_failed")
            => proc[w].ret # ReturnedBool(TRUE)

\* some owner's list, search or stats shows file f
Listed(f) ==
    \E o \in Owners :
        \/ \E i \in 1..Len(list_files(o, MaxFiles + 1, 0).files) :
              list_files(o, MaxFiles + 1, 0).files[i] = f
        \/ \E i \in 1..Len(search_files(FileIds, o)) : search_files(FileIds, o)[i] = f
        \/ get_file_info(f, o).exists
        \/ (get_storage_stats(o).file_count > 0 /\ f \in ActiveOf(o))

\* C12: once delete(fileId, owner) has returned success, a retrieve of the id
\* that passed the lock check finds no record and returns None, a delete of
\* the id returns False without touching record or blob, and the id is in no
\* owner's list, search, info or stats.
C12_DeleteIsFinal ==
    [][/\ \A w \in Workers :
            (/\ proc[w].fid \in FileIds
             /\ stored[proc[w].fid].deleted
             /\ proc'[w] # proc[w]
             /\ proc[w].pc \in {"rt_query", "dl_mark"})
              => (/\ proc'[w].pc = "done"
                  /\ proc'[w].why = "not_found"
                  /\ proc'[w].ret = IF proc[w].op = "retrieve"
                                    THEN ReturnedNone ELSE ReturnedBool(FALSE)
                  /\ UNCHANGED <<vault_dir, files>>)
       /\ \A f \in FileIds : stored[f].deleted => ~Listed(f)]_vars

\* a retrieve of a deleted file, whose blob survived the failed erase, has
\* returned None on an unlocked vault
C12_Witness ==
    \E w \in Workers :
        /\ proc[w].pc = "done" /\ proc[w].op = "retrieve"
        /\ proc[w].ret = ReturnedNone
        /\ stored[proc[w].fid].deleted
        /\ files[proc[w].fid].exists
        /\ vault_dir[files[proc[w].fid].encrypted_name].kind = "enc"
        /\ is_unlocked

\* C15: a store or retrieve that passed the unlocked check derives its file
\* key from the master key present at the check: at the step that reads
\* self._master_key for the derivation, the key has not been cleared.
C15_KeyReadIsAtomicWithCheck ==
    [][\A w \in Workers :
          (proc[w].pc \in {"st_encrypt", "rt_decrypt"} /\ proc'[w] # proc[w])
            => master_key # None]_vars

\* C17: cleanup_deleted_files removes the record of a soft-deleted file only
\* when the file's blob is gone from the vault directory.
C17_PurgeOnlyErased ==
    [][\A f \in FileIds :
          (files[f].exists /\ files[f].is_deleted /\ ~files'[f].exists)
            => vault_dir'[files[f].encrypted_name] = Absent]_vars

\* the vault is Locked: no key in memory and the flag down
Locked == master_key = None /\ ~unlocked_flag

\* C14: lock() discards the key and leaves the vault Locked (is_unlocked()
\* false, derive_file_key's guard failing); lock() from Locked changes
\* nothing, so lock(); lock() is lock().  First step: the key is None after
\* it; last step, no unlock having written the key in between: Locked after
\* it.  Both steps leave a Locked vault and the envelope as they were.
C14_LockDiscardsKey ==
    [][/\ (lk = "idle" /\ lk' = "clear_flag")
            => (/\ master_key' = None
                /\ ~is_unlocked' /\ ~KeyGuardPasses'
                /\ UNCHANGED master_key_file
                /\ Locked => UNCHANGED <<master_key, unlocked_flag>>)
       /\ (lk = "clear_flag" /\ lk' = "idle" /\ master_key = None)
            => (/\ Locked'
                /\ ~is_unlocked' /\ ~KeyGuardPasses'
                /\ UNCHANGED master_key_file
                /\ Locked => UNCHANGED <<master_key, unlocked_flag>>)]_vars

\* lock() is half way through on a vault that was Unlocked: the key is
\* cleared, the flag still up
C14_Witness ==
    /\ lk = "clear_flag"
    /\ master_key = None
    /\ unlocked_flag
    /\ ul.pc = "idle"
    /\ master_key_file.exists

\* C20: when neither an unlock nor a lock is in flight, _is_unlocked is true
\* exactly when a master key is held: every interleaving of unlock(pw) and
\* lock() ends in the state one of the two serial orders ends in.
C20_UnlockLockSerializable ==
    (ul.pc = "idle" /\ lk = "idle") => (unlocked_flag <=> master_key # None)

\* C13: resealing the in-memory master key under a new password leaves the
\* key's value unchanged and replaces the envelope; after a restart unlock
\* with the new password succeeds and yields that same key (so the stored
\* files decrypt as before), and unlock with the old password fails.
C13_RotateKeepsKey ==
    [][/\ (rot'.done /\ rot' # rot /\ ~rot'.restarted)
            => (UNCHANGED <<master_key, unlocked_flag>> /\ rot'.mk = master_key)
       /\ (UnsealStep /\ rot.done /\ rot.restarted)
            => IF ul'.pw = sealed_pw
               THEN ul'.pc = "set_key" /\ ul'.mk = rot.mk
               ELSE (ul'.pw = rot.old) => (ul'.pc = "done" /\ ul'.ret = "False")]_vars

\* C16: the list endpoint answers with the listing whatever the lock state.
C16_ListNeedsNoUnlock ==
    resp.endpoint = "list_files" => (resp.status = 200 /\ resp.success)

\* C18: unseal of an envelope one of whose fields salt, nonce, sealed_data
\* was changed after sealing fails, whatever the password.
C18_CorruptedEnvelopeFails ==
    [][(UnsealStep /\ tampered # "none")
          => (ul'.pc = "done" /\ ul'.ret = "False")]_vars

\* C19: an unlock that fails returns False and is answered with one and the
\* same response, whether the password was wrong or the envelope was altered.
C19_SameFailureSignal ==
    [][(ul.pc = "done" /\ ul'.pc = "idle" /\ resp' # resp /\ ul.ret # "True")
          => (/\ ul.ret = "False"
              /\ resp' = [endpoint |-> "unlock", status |-> 200, success |-> FALSE,
                          message |-> "Invalid master password", files |-> <<>>]
              /\ UNCHANGED <<vault_unlocked, master_key, unlocked_flag>>)]_vars

\* an earlier failed unlock was answered, and load_master_key has now
\* returned False for the sealing password on an envelope whose ciphertext
\* was altered
C19_Witness ==
    /\ ul.pc = "done" /\ ul.ret = "False"
    /\ tampered = "sealed_data"
    /\ ul.pw = sealed_pw
    /\ resp.endpoint = "unlock" /\ ~resp.success

\* ====================================================== claims C21 - C30
\* an envelope as seal_master_key writes it
CompleteEnvelope(env) ==
    /\ env.salt \in Salts
    /\ env.nonce \in Nonces
    /\ env.sealed_data # Garbled
    /\ env.sealed_data.pt \in MasterKeys

\* C21: whatever happens during save_master_key, the envelope file, if it
\* exists, holds a complete envelope (the previous or the new one).
C21_EnvelopeNeverPartial ==
    (master_key_file.exists /\ tampered = "none") => CompleteEnvelope(master_key_file)

\* a field of the envelope is missing, is not base64, or decodes to the wrong
\* length
Malformed(env) ==
    \/ env.salt \in Undecodable \/ env.nonce \in Undecodable
    \/ salt_len(env.salt) # 32
    \/ nonce_len(env.nonce) # 12

\* C23: unseal of an envelope with a missing field, a field that is not
\* base64, a salt that is not 32 bytes or a nonce that is not 12 bytes fails.
C23_MalformedEnvelopeRejected ==
    [][(UnsealStep /\ Malformed(master_key_file))
          => (ul'.pc = "done" /\ ul'.ret = "False")]_vars

\* C22: secure_delete on an existing file overwrites its full extent and
\* syncs, three times over, before it removes the directory entry: whenever
\* the entry has been removed, the call's log is write, sync, write, sync,
\* write, sync, unlink with every write as long as the file, and what is on
\* disk at the unlink is the third overwrite.  On a missing file it does
\* nothing and returns True.
C22_ThreePassesThenUnlink ==
    /\ (sd.pc = "done" /\ sd.existed /\ sd.ret = "True")
         => (/\ ~sd.file.exists
             /\ Len(sd.log) = 7
             /\ \A i \in {1, 3, 5} :
                   /\ sd.log[i] = [ev |-> "write", bytes |-> sd.file_size]
                   /\ sd.log[i + 1].ev = "sync"
             /\ sd.log[7].ev = "unlink")
    /\ (sd.pc = "unlink") => (sd.file.content = 3 /\ sd.file.durable = 3)
    /\ (sd.pc = "done" /\ ~sd.existed)
         => (sd.ret = "True" /\ sd.log = <<>> /\ sd.file = NoSdFile)
    /\ (sd.pc # "done" /\ sd.pc # "idle") => sd.file.exists

\* secure_delete has returned True after erasing a two-byte file
C22_Witness ==
    /\ sd.pc = "done" /\ sd.existed /\ sd.ret = "True"
    /\ sd.file_size = 2
    /\ Len(sd.log) = 7

\* C25: after setup_totp has stored a secret, enable_totp with a code of that
\* secret that is valid at the time of the call returns True and leaves
\* totp_enabled True.
C25_EnrolmentCompletes ==
    (totp.op = "enable_totp" /\ totp.token_valid)
        => (totp.ok /\ user.totp_enabled)

\* C30: a verify_session call that begins after its session was invalidated
\* (invalidate_session returned True) or expired by either clean-up returns
\* no user, and such a session never has an active row again.
C30_RevokedSessionRejected ==
    /\ (vs.pc = "done" /\ vs.late) => vs.ret = "None"
    /\ vs.pc = "commit" => ~vs.late
    /\ \A i \in revoked : ~(sessions[i].exists /\ sessions[i].is_active)

\* a token whose signature is still fresh is refused after its session was
\* invalidated
C30_Witness ==
    /\ vs.pc = "done" /\ vs.late /\ vs.ret = "None"
    /\ loads(vs.sid, clock)
    /\ sessions[vs.sid].exists

\* a load_master_key call fails: it returns False in its one step
FailedLoad == ul.pc = "idle" /\ ul'.pc = "done" /\ ul'.ret = "False"
\* POST /api/vault/unlock answers a failed attempt
FailedUnlockResponse == ul.pc = "done" /\ ul.ret = "False" /\ resp'.endpoint = "unlock"

\* C26: a failed unlock attempt (no envelope file, wrong password, damaged
\* envelope) changes neither the key held in memory nor the unlocked flag, nor
\* the API's own flag: a locked vault stays locked, an unlocked vault stays
\* unlocked with the same master key.
C26_FailedUnlockKeepsLockState ==
    [][(FailedLoad \/ FailedUnlockResponse)
          => UNCHANGED <<master_key, unlocked_flag, vault_unlocked>>]_vars

\* an unlock attempt on a damaged envelope has failed while the vault is unlocked
C26_Witness ==
    /\ ul.pc = "done" /\ ul.ret = "False"
    /\ tampered # "none"
    /\ unlocked_flag /\ master_key # None /\ vault_unlocked

\* C27: after every completed unlock or lock request of the API (and so in
\* every state between requests) the flag vault_unlocked equals
\* crypto_manager.is_unlocked().
C27_ApiFlagMatchesKeyManager ==
    vault_unlocked = is_unlocked

\* an unlock request has failed on a vault that was, and still is, unlocked
C27_Witness ==
    /\ resp.endpoint = "unlock" /\ ~resp.success
    /\ vault_unlocked /\ is_unlocked

\* the records a read for the owner is to return: the owner's own, not
\* soft-deleted
OwnLive(owner) ==
    {f \in FileIds : files[f].exists /\ files[f].user_id = owner
                     /\ ~files[f].is_deleted}
\* the ids in a result
Returned(r) == {r.files[k] : k \in 1..Len(r.files)}

C28_RetrieveNeverReturnsOtherBytes ==
    \A w \in Workers :
        (proc[w].op = "retrieve" /\ proc[w].pc = "done")
            => \/ proc[w].ret \in {ReturnedNone, RaisedRuntimeError}
               \/ /\ proc[w].ret.t = "bytes"
                  /\ stored[proc[w].fid].data # None
                  /\ proc[w].ret.data = stored[proc[w].fid].data

\* a retrieve found its blob overwritten by a delete running beside it, and
\* was refused
C28_Witness ==
    \E w \in Workers :
        /\ proc[w].op = "retrieve" /\ proc[w].pc = "done"
        /\ proc[w].why = "decrypt_failed"
        /\ vault_dir[proc[w].name] = Random

\* the call of worker w has picked the on-disk name it works on
HasName(w) == proc[w].op # "none" /\ proc[w].name # 0

\* a store that returned a file id has, at its own name, a blob that is its
\* own data sealed for its own id, and its own record
OwnBlobAndRecord(w) ==
    /\ vault_dir[proc[w].name].kind = "enc"
    /\ vault_dir[proc[w].name].ct.pt = proc[w].data
    /\ vault_dir[proc[w].name].ct.key.info = proc[w].fid
    /\ files[proc[w].fid] = FileRecord(proc[w].name, proc[w].owner)

\* the name a call works on belongs to no other file id: not to another id's
\* record, not to a call in flight on another id
NameIsOwn(w) ==
    /\ \A g \in FileIds :
          (g # proc[w].fid /\ files[g].exists) => files[g].encrypted_name # proc[w].name
    /\ \A v \in Workers :
          (HasName(v) /\ proc[v].fid # proc[w].fid) => proc[v].name # proc[w].name

\* worker w takes a step of its call
TakesStep(w) == proc'[w] # proc[w]

\* C24: with store, retrieve and delete calls on different file ids running at
\* once, every store that returns a file id ends with its own blob under its
\* own name and its own record; the name a call reads, overwrites or removes
\* is the name of no other file id; and a step changes only the blob and the
\* record of the file id of the call that takes it.
C24_DifferentIdsDoNotInterfere ==
    /\ [](\A w \in Workers :
            /\ (proc[w].op = "store" /\ proc[w].pc = "done" /\ proc[w].ret.t = "file_id")
                  => OwnBlobAndRecord(w)
            /\ HasName(w) => NameIsOwn(w))
    /\ [][/\ \A n \in FileIds :
                vault_dir'[n] # vault_dir[n]
                   => \E w \in Workers :
                         /\ TakesStep(w)
                         /\ n = IF proc[w].op = "none" THEN proc'[w].name ELSE proc[w].name
          /\ \A g \in FileIds :
                files'[g] # files[g]
                   => \E w \in Workers : TakesStep(w) /\ proc[w].fid = g]_vars

\* two calls on different file ids are under way at once, each on its own
\* blob, and one of them is a store that has just returned its file id
C24_Witness ==
    /\ proc["w1"].op = "store" /\ proc["w1"].pc = "done" /\ proc["w1"].ret.t = "file_id"
    /\ HasName("w2") /\ proc["w2"].fid # proc["w1"].fid
    /\ vault_dir[proc["w2"].name] # Absent
====
